---- MODULE Spec2Model ----
(***************************************************************************)
(* State-machine model of server.js: the Express handlers that couple a    *)
(* table row to a file in the upload directory, the multer disk storage    *)
(* that names and writes the files, and the path arithmetic each handler   *)
(* uses to find the file again.                                            *)
(*                                                                         *)
(* Strings are sequences of tokens (a separator "/", a literal, or a       *)
(* generated file name), so that concatenation, path.join, replace and     *)
(* basename are computed and not assumed.  The file system is the set of   *)
(* absolute paths (sequences of segments) that exist.                      *)
(*                                                                         *)
(* One step of a request is one run of JavaScript on the event loop: the   *)
(* arrival step is the multer middleware followed by the handler's         *)
(* synchronous body; every later step is one database statement together   *)
(* with the callback that receives its result, or the completion of one    *)
(* asynchronous fs.unlink.  Steps of different requests interleave freely. *)
(***************************************************************************)
EXTENDS Integers, Sequences, FiniteSets, TLC

\* ----------------------------------------------------------------- bounds
MaxReqs == 3
MaxClock == 1
MaxId == 2

Reqs == 1..MaxReqs

\* ---------------------------------------------------------------- strings
Sep == <<"sep", 0, "">>
Lit(s) == <<"lit", 0, s>>
\* Date.now() + path.extname(file.originalname)
FileName(t, ext) == <<"name", t, ext>>
Exts == {".png"}

\* __dirname, the directory holding server.js
Dirname == <<Sep, Lit("app")>>
\* the working directory, against which multer's "uploads/" and the relative
\* paths given to fs resolve: the server runs from its own directory, the one
\* place where start-up creates an uploads directory
Cwd == Dirname

\* `/uploads/${filename}`
SlashUploads(filename) == <<Sep, Lit("uploads"), Sep>> \o filename
\* `uploads/${filename}`
RelUploads(filename) == <<Lit("uploads"), Sep>> \o filename

IsSegment(tok) == tok # Sep /\ tok # Lit(".")
\* the segments of a normalised path: empty and "." segments drop out
Segments(s) == SelectSeq(s, IsSegment)
IsAbsolute(s) == Len(s) > 0 /\ s[1] = Sep
\* the absolute path the operating system resolves a path string to
Resolve(s) == IF IsAbsolute(s) THEN Segments(s) ELSE Segments(Cwd) \o Segments(s)
\* path.join(a, b)
PathJoin(a, b) == a \o <<Sep>> \o b

\* first index at which pat occurs in s, 0 when it does not
IndexOf(s, pat) ==
    LET hits == {i \in 1..(Len(s) - Len(pat) + 1) : SubSeq(s, i, i + Len(pat) - 1) = pat}
    IN IF hits = {} THEN 0 ELSE CHOOSE i \in hits : \A j \in hits : i <= j
\* String.prototype.replace with a string pattern: the first occurrence only
Replace(s, pat, rep) ==
    LET i == IndexOf(s, pat)
    IN IF i = 0 THEN s
       ELSE SubSeq(s, 1, i - 1) \o rep \o SubSeq(s, i + Len(pat), Len(s))
\* path.basename: what follows the last separator
Basename(s) ==
    LET seps == {i \in 1..Len(s) : s[i] = Sep}
        last == IF seps = {} THEN 0 ELSE CHOOSE i \in seps : \A j \in seps : j <= i
    IN SubSeq(s, last + 1, Len(s))

\* ---------------------------------------------------------------- routing
\* a route parameter such as :id, and a number written in a URL
Param == <<"param", 0, "">>
Num(n) == <<"num", n, "">>
\* "/api/banner/<last>"
ApiBannerUrl(last) == <<Sep, Lit("api"), Sep, Lit("banner"), Sep, last>>
\* the app.delete routes whose pattern begins with /api/banner/, in the order
\* server.js registers them: "/api/banner/:id" and "/api/banner/delete"
DeleteRoutes == <<ApiBannerUrl(Param), ApiBannerUrl(Lit("delete"))>>
\* a route pattern matches a URL: :id matches any one segment
Matches(pat, url) ==
    /\ Len(pat) = Len(url)
    /\ \A i \in 1..Len(pat) : IF pat[i] = Param THEN url[i] # Sep ELSE pat[i] = url[i]
\* Express runs the first registered route that matches (0: none does)
Dispatch(routes, url) ==
    LET hits == {i \in 1..Len(routes) : Matches(routes[i], url)}
    IN IF hits = {} THEN 0 ELSE CHOOSE i \in hits : \A j \in hits : i <= j
\* what MySQL compares an INT column with when the parameter is this string:
\* a string that is not a number converts to 0
SqlInt(tok) == IF tok[1] = "num" THEN tok[2] ELSE 0

\* ------------------------------------------------------------ query strings
\* a query parameter that was not sent
Absent == <<"absent", 0, "">>
\* parseInt of a query parameter: NaN unless the string is a number
ParseInt(tok) ==
    IF tok[1] = "num" THEN [nan |-> FALSE, n |-> tok[2]] ELSE [nan |-> TRUE, n |-> 0]
\* v || d: NaN and 0 are falsy
OrDefault(v, d) == IF v.nan \/ v.n = 0 THEN d ELSE v.n
DefaultPage == 1
DefaultLimit == 10

\* ------------------------------------------------------------------ state
VARIABLES
    db,       \* table name -> set of rows [id, ref]
    nextId,   \* table name -> next AUTO_INCREMENT value
    disk,     \* set of absolute paths of the files that exist
    now,      \* Date.now()
    req,      \* request -> its record
    crashed   \* the process died of an uncaught exception

vars == <<db, nextId, disk, now, req, crashed>>

Tables == {"banners", "jeebanner", "vidyarajan_banners", "explorecourses",
           "study_resources", "stories", "courses", "banner",
           "olympiad_students", "students", "uniquer_olympiad_courses",
           "olympiad_course", "testimonials", "timetable", "assignments",
           "blogs", "blog_banners", "users", "titles", "admin_details"}

\* ep: the handler reached; url: the request path where routing matters; id:
\* the :id parameter as the database reads it; text: the required scalar fields
\* are all present; file: req.file.filename; ref: the file reference the handler
\* built or read; path: the path it unlinks; unlink: a fire-and-forget fs.unlink;
\* status: the HTTP status sent (0: none yet); query: req.query as sent; page,
\* limit, offset: what GET /explorecourse computed from it; rows: the rows in
\* the response body; email, password: req.body of /login and /register ("":
\* not sent); hash: the bcrypt hash the handler holds; error: the error message
\* in the response body; dberr: the err the db.query callback that sent the
\* response was given ("": none); body: the values posted to a one-row table,
\* or the values a GET of it returned ("": none)
NoQuery == [page |-> Absent, limit |-> Absent, search |-> FALSE]
NoReq == [ep |-> "none", pc |-> "new", url |-> <<>>, id |-> 0, text |-> FALSE,
          file |-> <<>>, ref |-> <<>>, path |-> <<>>, unlink |-> "none", status |-> 0,
          query |-> NoQuery, page |-> 0, limit |-> 0, offset |-> 0, rows |-> <<>>,
          email |-> "", password |-> "", hash |-> <<>>, error |-> "",
          dberr |-> "", body |-> ""]

Init ==
    /\ db = [t \in Tables |-> {}]
    /\ nextId = [t \in Tables |-> 1]
    /\ disk = {}
    /\ now = 0
    /\ req = [r \in Reqs |-> NoReq]
    /\ crashed = FALSE

\* --------------------------------------------------------------- plumbing
\* a request is accepted: the process is alive and requests are numbered in
\* the order they arrive
Accepts(r) ==
    /\ ~crashed
    /\ req[r].pc = "new"
    /\ r > 1 => req[r - 1].pc # "new"

At(r, ep, pc) == ~crashed /\ req[r].ep = ep /\ req[r].pc = pc

\* upload.single(field): what a request may carry, named at the current clock
Uploads == {<<>>} \cup {<<FileName(now, e)>> : e \in Exts}
\* multer.diskStorage: destination "uploads/" joined with the generated name
MulterPath(filename) == Resolve(PathJoin(<<Lit("uploads"), Sep>>, filename))
MulterStore(filename) == IF filename = <<>> THEN disk ELSE disk \cup {MulterPath(filename)}

\* path.join(__dirname, "uploads")
UploadDir == PathJoin(Dirname, <<Lit("uploads")>>)
\* the origin the handlers write into absolute URLs
Origin == Lit("http://localhost:5000")
\* app.use("/uploads", express.static(uploadDir)): the file a GET of this URL
\* reads, <<>> when the URL is not under /uploads/
Served(url) ==
    LET p == IF url # <<>> /\ url[1] = Origin THEN Tail(url) ELSE url
    IN IF Len(p) > 3 /\ SubSeq(p, 1, 3) = <<Sep, Lit("uploads"), Sep>>
       THEN Resolve(PathJoin(UploadDir, SubSeq(p, 4, Len(p))))
       ELSE <<>>
\* the URL under which a stored reference is handed to clients: the banner
\* table's image_path is prefixed with the origin and "/", the other tables'
\* references are sent as they are
RowUrl(t, ref) == IF t = "banner" THEN <<Origin, Sep>> \o ref ELSE ref
RowFile(t, row) == Served(RowUrl(t, row.ref))

\* res.status(code).json(...): the request is answered
Reply(rec, code) == [rec EXCEPT !.pc = "done", !.status = code]
\* the same, from the branch of a db.query callback taken when err is set
Fail(rec, code) == [Reply(rec, code) EXCEPT !.dberr = "failed"]

Row(t, ref) == [id |-> nextId[t], ref |-> ref]
RowsById(t, id) == {row \in db[t] : row.id = id}
\* INSERT INTO t (...) VALUES (...)
InsertInto(t, ref) ==
    /\ db' = [db EXCEPT ![t] = @ \cup {Row(t, ref)}]
    /\ nextId' = [nextId EXCEPT ![t] = @ + 1]
\* DELETE FROM t WHERE id = ?
DeleteFrom(t, id) ==
    /\ db' = [db EXCEPT ![t] = @ \ RowsById(t, id)]
    /\ UNCHANGED nextId

\* the clock advances between events
Tick ==
    /\ ~crashed
    /\ now < MaxClock
    /\ now' = now + 1
    /\ UNCHANGED <<db, nextId, disk, req, crashed>>

\* an fs.unlink whose callback only logs: it completes some time later
UnlinkDone(r) ==
    /\ ~crashed
    /\ req[r].unlink = "inflight"
    /\ disk' = disk \ {req[r].path}
    /\ req' = [req EXCEPT ![r].unlink = "done"]
    /\ UNCHANGED <<db, nextId, now, crashed>>

\* ------------------------------------------------------ banners (120-176)
\* POST /api/banner: multer, then the handler up to db.query
PostApiBanner(r) ==
    /\ Accepts(r)
    /\ \E text \in BOOLEAN, filename \in Uploads :
        LET imageUrl == IF filename # <<>> THEN SlashUploads(filename) ELSE <<>>
            rec == [NoReq EXCEPT !.ep = "POST /api/banner", !.text = text, !.file = filename]
        IN /\ disk' = MulterStore(filename)
           /\ req' = [req EXCEPT ![r] =
                        IF ~text \/ imageUrl = <<>>
                        THEN Reply(rec, 400)
                        ELSE [rec EXCEPT !.pc = "insert", !.ref = imageUrl]]
    /\ UNCHANGED <<db, nextId, now, crashed>>

\* the INSERT and its callback
PostApiBannerInsert(r) ==
    /\ At(r, "POST /api/banner", "insert")
    /\ \E err \in BOOLEAN :
        IF err
        THEN req' = [req EXCEPT ![r] = Fail(@, 500)] /\ UNCHANGED <<db, nextId>>
        ELSE req' = [req EXCEPT ![r] = Reply(@, 200)] /\ InsertInto("banners", req[r].ref)
    /\ UNCHANGED <<disk, now, crashed>>

\* a DELETE request for /api/banner/<id> or /api/banner/delete: Express
\* dispatches it, and the handler it reaches issues its SELECT
DeleteApiBanner(r) ==
    /\ Accepts(r)
    /\ \E url \in {ApiBannerUrl(Num(n)) : n \in 1..MaxId} \cup {ApiBannerUrl(Lit("delete"))} :
        req' = [req EXCEPT ![r] =
                  IF Dispatch(DeleteRoutes, url) = 1
                  THEN [NoReq EXCEPT !.ep = "DELETE /api/banner/:id", !.pc = "select",
                                     !.url = url, !.id = SqlInt(url[Len(url)])]
                  ELSE [NoReq EXCEPT !.ep = "DELETE /api/banner/delete", !.pc = "select",
                                     !.url = url]]
    /\ UNCHANGED <<db, nextId, disk, now, crashed>>

\* SELECT image_url FROM banners WHERE id = ? and its callback
DeleteApiBannerSelect(r) ==
    /\ At(r, "DELETE /api/banner/:id", "select")
    /\ \E err \in BOOLEAN :
        req' = [req EXCEPT ![r] =
                  IF err THEN Fail(@, 500)
                  ELSE IF RowsById("banners", @.id) = {} THEN Reply(@, 404)
                  ELSE LET row == CHOOSE x \in RowsById("banners", @.id) : TRUE
                       IN [@ EXCEPT !.pc = "delete", !.ref = row.ref,
                                    !.path = Resolve(PathJoin(PathJoin(Dirname, <<Lit("public")>>),
                                                              row.ref))]]
    /\ UNCHANGED <<db, nextId, disk, now, crashed>>

\* DELETE FROM banners WHERE id = ? and its callback: fs.unlink is started
\* and the response is sent without waiting for it
DeleteApiBannerDelete(r) ==
    /\ At(r, "DELETE /api/banner/:id", "delete")
    /\ \E err \in BOOLEAN :
        IF err
        THEN req' = [req EXCEPT ![r] = Fail(@, 500)] /\ UNCHANGED <<db, nextId>>
        ELSE /\ req' = [req EXCEPT ![r] = [Reply(@, 200) EXCEPT !.unlink = "inflight"]]
             /\ DeleteFrom("banners", req[r].id)
    /\ UNCHANGED <<disk, now, crashed>>

\* ---------------------------------------------------- jeebanner (1510-1532)
\* POST /api/jeebanner: req.file.filename is read before req.file is tested,
\* so a request without a file throws in the handler and Express answers 500
PostApiJeebanner(r) ==
    /\ Accepts(r)
    /\ \E text \in BOOLEAN, filename \in Uploads :
        LET rec == [NoReq EXCEPT !.ep = "POST /api/jeebanner", !.text = text,
                                 !.file = filename]
        IN /\ disk' = MulterStore(filename)
           /\ req' = [req EXCEPT ![r] =
                        IF filename = <<>> THEN Reply(rec, 500)
                        ELSE IF ~text THEN Reply(rec, 400)
                        ELSE [rec EXCEPT !.pc = "insert", !.ref = SlashUploads(filename)]]
    /\ UNCHANGED <<db, nextId, now, crashed>>

PostApiJeebannerInsert(r) ==
    /\ At(r, "POST /api/jeebanner", "insert")
    /\ \E err \in BOOLEAN :
        IF err
        THEN req' = [req EXCEPT ![r] = Fail(@, 500)] /\ UNCHANGED <<db, nextId>>
        ELSE req' = [req EXCEPT ![r] = Reply(@, 200)] /\ InsertInto("jeebanner", req[r].ref)
    /\ UNCHANGED <<disk, now, crashed>>

\* DELETE /api/jeebanner/:id: the handler issues the DELETE
DeleteApiJeebanner(r) ==
    /\ Accepts(r)
    /\ \E id \in 1..MaxId :
        req' = [req EXCEPT ![r] =
                  [NoReq EXCEPT !.ep = "DELETE /api/jeebanner/:id", !.pc = "delete", !.id = id]]
    /\ UNCHANGED <<db, nextId, disk, now, crashed>>

DeleteApiJeebannerDelete(r) ==
    /\ At(r, "DELETE /api/jeebanner/:id", "delete")
    /\ \E err \in BOOLEAN :
        IF err
        THEN req' = [req EXCEPT ![r] = Fail(@, 500)] /\ UNCHANGED <<db, nextId>>
        ELSE req' = [req EXCEPT ![r] = Reply(@, 200)] /\ DeleteFrom("jeebanner", req[r].id)
    /\ UNCHANGED <<disk, now, crashed>>

\* --------------------------------------------- vidyarajan_banners (693-760)
\* POST /api/v1/banner/upload
PostApiV1BannerUpload(r) ==
    /\ Accepts(r)
    /\ \E filename \in Uploads :
        LET rec == [NoReq EXCEPT !.ep = "POST /api/v1/banner/upload", !.text = TRUE,
                                 !.file = filename]
        IN /\ disk' = MulterStore(filename)
           /\ req' = [req EXCEPT ![r] =
                        IF filename = <<>> THEN Reply(rec, 400)
                        ELSE [rec EXCEPT !.pc = "insert", !.ref = SlashUploads(filename)]]
    /\ UNCHANGED <<db, nextId, now, crashed>>

PostApiV1BannerUploadInsert(r) ==
    /\ At(r, "POST /api/v1/banner/upload", "insert")
    /\ \E err \in BOOLEAN :
        IF err
        THEN req' = [req EXCEPT ![r] = Fail(@, 500)] /\ UNCHANGED <<db, nextId>>
        ELSE req' = [req EXCEPT ![r] = Reply(@, 200)]
             /\ InsertInto("vidyarajan_banners", req[r].ref)
    /\ UNCHANGED <<disk, now, crashed>>

\* DELETE /api/v1/banner/delete/:id: the handler issues the SELECT
DeleteApiV1Banner(r) ==
    /\ Accepts(r)
    /\ \E id \in 1..MaxId :
        req' = [req EXCEPT ![r] =
                  [NoReq EXCEPT !.ep = "DELETE /api/v1/banner/delete/:id",
                                !.pc = "select", !.id = id]]
    /\ UNCHANGED <<db, nextId, disk, now, crashed>>

\* the SELECT and its callback: an error and an empty result are both 404;
\* otherwise fs.unlink is started and the DELETE is issued at once
DeleteApiV1BannerSelect(r) ==
    /\ At(r, "DELETE /api/v1/banner/delete/:id", "select")
    /\ \E err \in BOOLEAN :
        req' = [req EXCEPT ![r] =
                  IF err THEN Fail(@, 404)
                  ELSE IF RowsById("vidyarajan_banners", @.id) = {} THEN Reply(@, 404)
                  ELSE LET row == CHOOSE x \in RowsById("vidyarajan_banners", @.id) : TRUE
                       IN [@ EXCEPT !.pc = "delete", !.ref = row.ref, !.unlink = "inflight",
                                    !.path = Resolve(PathJoin(Dirname,
                                                 Replace(row.ref, <<Sep, Lit("uploads")>>,
                                                         <<Lit("uploads")>>)))]]
    /\ UNCHANGED <<db, nextId, disk, now, crashed>>

DeleteApiV1BannerDelete(r) ==
    /\ At(r, "DELETE /api/v1/banner/delete/:id", "delete")
    /\ \E err \in BOOLEAN :
        IF err
        THEN req' = [req EXCEPT ![r] = Fail(@, 500)] /\ UNCHANGED <<db, nextId>>
        ELSE req' = [req EXCEPT ![r] = Reply(@, 200)]
             /\ DeleteFrom("vidyarajan_banners", req[r].id)
    /\ UNCHANGED <<disk, now, crashed>>

\* ------------------------------------------------------ courses (195-218)
\* POST /courses: no file, no validation
PostCourses(r) ==
    /\ Accepts(r)
    /\ req' = [req EXCEPT ![r] = [NoReq EXCEPT !.ep = "POST /courses", !.pc = "insert"]]
    /\ UNCHANGED <<db, nextId, disk, now, crashed>>

PostCoursesInsert(r) ==
    /\ At(r, "POST /courses", "insert")
    /\ \E err \in BOOLEAN :
        IF err
        THEN req' = [req EXCEPT ![r] = Fail(@, 500)] /\ UNCHANGED <<db, nextId>>
        ELSE req' = [req EXCEPT ![r] = Reply(@, 201)] /\ InsertInto("courses", <<>>)
    /\ UNCHANGED <<disk, now, crashed>>

\* DELETE /courses/:id
DeleteCourses(r) ==
    /\ Accepts(r)
    /\ \E id \in 1..MaxId :
        req' = [req EXCEPT ![r] =
                  [NoReq EXCEPT !.ep = "DELETE /courses/:id", !.pc = "delete", !.id = id]]
    /\ UNCHANGED <<db, nextId, disk, now, crashed>>

DeleteCoursesDelete(r) ==
    /\ At(r, "DELETE /courses/:id", "delete")
    /\ \E err \in BOOLEAN :
        IF err
        THEN req' = [req EXCEPT ![r] = Fail(@, 500)] /\ UNCHANGED <<db, nextId>>
        ELSE req' = [req EXCEPT ![r] = Reply(@, 200)] /\ DeleteFrom("courses", req[r].id)
    /\ UNCHANGED <<disk, now, crashed>>

\* ----------------------------------------------- explorecourses (253-296)
\* POST /explorecourse
PostExplorecourse(r) ==
    /\ Accepts(r)
    /\ \E text \in BOOLEAN, filename \in Uploads :
        LET image == IF filename # <<>> THEN SlashUploads(filename) ELSE <<>>
            rec == [NoReq EXCEPT !.ep = "POST /explorecourse", !.text = text, !.file = filename]
        IN /\ disk' = MulterStore(filename)
           /\ req' = [req EXCEPT ![r] =
                        IF ~text \/ image = <<>>
                        THEN Reply(rec, 400)
                        ELSE [rec EXCEPT !.pc = "insert", !.ref = image]]
    /\ UNCHANGED <<db, nextId, now, crashed>>

PostExplorecourseInsert(r) ==
    /\ At(r, "POST /explorecourse", "insert")
    /\ \E err \in BOOLEAN :
        IF err
        THEN req' = [req EXCEPT ![r] = Fail(@, 500)] /\ UNCHANGED <<db, nextId>>
        ELSE req' = [req EXCEPT ![r] = Reply(@, 201)]
             /\ InsertInto("explorecourses", req[r].ref)
    /\ UNCHANGED <<disk, now, crashed>>

\* DELETE /explorecourse/:id: the handler issues the SELECT
DeleteExplorecourse(r) ==
    /\ Accepts(r)
    /\ \E id \in 1..MaxId :
        req' = [req EXCEPT ![r] =
                  [NoReq EXCEPT !.ep = "DELETE /explorecourse/:id", !.pc = "select", !.id = id]]
    /\ UNCHANGED <<db, nextId, disk, now, crashed>>

DeleteExplorecourseSelect(r) ==
    /\ At(r, "DELETE /explorecourse/:id", "select")
    /\ \E err \in BOOLEAN :
        req' = [req EXCEPT ![r] =
                  IF err THEN Fail(@, 500)
                  ELSE IF RowsById("explorecourses", @.id) = {} THEN Reply(@, 404)
                  ELSE LET row == CHOOSE x \in RowsById("explorecourses", @.id) : TRUE
                       IN [@ EXCEPT !.pc = "delete", !.ref = row.ref]]
    /\ UNCHANGED <<db, nextId, disk, now, crashed>>

\* the DELETE and its callback: the image file is not touched
DeleteExplorecourseDelete(r) ==
    /\ At(r, "DELETE /explorecourse/:id", "delete")
    /\ \E err \in BOOLEAN :
        IF err
        THEN req' = [req EXCEPT ![r] = Fail(@, 500)] /\ UNCHANGED <<db, nextId>>
        ELSE req' = [req EXCEPT ![r] = Reply(@, 200)]
             /\ DeleteFrom("explorecourses", req[r].id)
    /\ UNCHANGED <<disk, now, crashed>>

\* ------------------------------------------------------ stories (475-500)
\* POST /stories
PostStories(r) ==
    /\ Accepts(r)
    /\ \E text \in BOOLEAN, filename \in Uploads :
        LET imagePath == IF filename # <<>> THEN SlashUploads(filename) ELSE <<>>
            rec == [NoReq EXCEPT !.ep = "POST /stories", !.text = text, !.file = filename]
        IN /\ disk' = MulterStore(filename)
           /\ req' = [req EXCEPT ![r] =
                        IF ~text \/ imagePath = <<>>
                        THEN Reply(rec, 400)
                        ELSE [rec EXCEPT !.pc = "insert", !.ref = imagePath]]
    /\ UNCHANGED <<db, nextId, now, crashed>>

PostStoriesInsert(r) ==
    /\ At(r, "POST /stories", "insert")
    /\ \E err \in BOOLEAN :
        IF err
        THEN req' = [req EXCEPT ![r] = Fail(@, 500)] /\ UNCHANGED <<db, nextId>>
        ELSE req' = [req EXCEPT ![r] = Reply(@, 200)] /\ InsertInto("stories", req[r].ref)
    /\ UNCHANGED <<disk, now, crashed>>

\* DELETE /stories/:id
DeleteStories(r) ==
    /\ Accepts(r)
    /\ \E id \in 1..MaxId :
        req' = [req EXCEPT ![r] =
                  [NoReq EXCEPT !.ep = "DELETE /stories/:id", !.pc = "delete", !.id = id]]
    /\ UNCHANGED <<db, nextId, disk, now, crashed>>

DeleteStoriesDelete(r) ==
    /\ At(r, "DELETE /stories/:id", "delete")
    /\ \E err \in BOOLEAN :
        IF err
        THEN req' = [req EXCEPT ![r] = Fail(@, 500)] /\ UNCHANGED <<db, nextId>>
        ELSE req' = [req EXCEPT ![r] = Reply(@, 200)] /\ DeleteFrom("stories", req[r].id)
    /\ UNCHANGED <<disk, now, crashed>>

\* -------------------------------------------- study_resources (1295-1338)
\* POST /study-material-upload
PostStudyMaterialUpload(r) ==
    /\ Accepts(r)
    /\ \E text \in BOOLEAN, filename \in Uploads :
        LET filePath == IF filename # <<>> THEN SlashUploads(filename) ELSE <<>>
            rec == [NoReq EXCEPT !.ep = "POST /study-material-upload", !.text = text,
                                 !.file = filename]
        IN /\ disk' = MulterStore(filename)
           /\ req' = [req EXCEPT ![r] =
                        IF ~text \/ filePath = <<>>
                        THEN Reply(rec, 400)
                        ELSE [rec EXCEPT !.pc = "insert", !.ref = filePath]]
    /\ UNCHANGED <<db, nextId, now, crashed>>

PostStudyMaterialUploadInsert(r) ==
    /\ At(r, "POST /study-material-upload", "insert")
    /\ \E err \in BOOLEAN :
        IF err
        THEN req' = [req EXCEPT ![r] = Fail(@, 500)] /\ UNCHANGED <<db, nextId>>
        ELSE req' = [req EXCEPT ![r] = Reply(@, 200)]
             /\ InsertInto("study_resources", req[r].ref)
    /\ UNCHANGED <<disk, now, crashed>>

\* DELETE /study-material/:id
DeleteStudyMaterial(r) ==
    /\ Accepts(r)
    /\ \E id \in 1..MaxId :
        req' = [req EXCEPT ![r] =
                  [NoReq EXCEPT !.ep = "DELETE /study-material/:id", !.pc = "delete", !.id = id]]
    /\ UNCHANGED <<db, nextId, disk, now, crashed>>

DeleteStudyMaterialDelete(r) ==
    /\ At(r, "DELETE /study-material/:id", "delete")
    /\ \E err \in BOOLEAN :
        IF err
        THEN req' = [req EXCEPT ![r] = Fail(@, 500)] /\ UNCHANGED <<db, nextId>>
        ELSE req' = [req EXCEPT ![r] = Reply(@, 200)]
             /\ DeleteFrom("study_resources", req[r].id)
    /\ UNCHANGED <<disk, now, crashed>>

\* ------------------------------------------- banner, one row (869-904)
\* POST /api/banner/upload: the handler issues DELETE FROM banner
PostApiBannerUpload(r) ==
    /\ Accepts(r)
    /\ \E filename \in Uploads :
        LET rec == [NoReq EXCEPT !.ep = "POST /api/banner/upload", !.text = TRUE,
                                 !.file = filename]
        IN /\ disk' = MulterStore(filename)
           /\ req' = [req EXCEPT ![r] =
                        IF filename = <<>> THEN Reply(rec, 400)
                        ELSE [rec EXCEPT !.pc = "clear", !.ref = RelUploads(filename)]]
    /\ UNCHANGED <<db, nextId, now, crashed>>

\* (mutant) the old rows are not cleared before the INSERT
PostApiBannerUploadKeepsRows(r) ==
    /\ At(r, "POST /api/banner/upload", "clear")
    /\ \E err \in BOOLEAN :
        IF err
        THEN req' = [req EXCEPT ![r] = Fail(@, 500)]
        ELSE req' = [req EXCEPT ![r].pc = "insert"]
    /\ UNCHANGED <<db, nextId, disk, now, crashed>>

\* DELETE FROM banner and its callback, which issues the INSERT
PostApiBannerUploadClear(r) ==
    /\ At(r, "POST /api/banner/upload", "clear")
    /\ \E err \in BOOLEAN :
        IF err
        THEN req' = [req EXCEPT ![r] = Fail(@, 500)] /\ UNCHANGED db
        ELSE req' = [req EXCEPT ![r].pc = "insert"] /\ db' = [db EXCEPT !["banner"] = {}]
    /\ UNCHANGED <<nextId, disk, now, crashed>>

\* INSERT INTO banner (image_path) and its callback
PostApiBannerUploadInsert(r) ==
    /\ At(r, "POST /api/banner/upload", "insert")
    /\ \E err \in BOOLEAN :
        IF err
        THEN req' = [req EXCEPT ![r] = Fail(@, 500)] /\ UNCHANGED <<db, nextId>>
        ELSE req' = [req EXCEPT ![r] = Reply(@, 200)] /\ InsertInto("banner", req[r].ref)
    /\ UNCHANGED <<disk, now, crashed>>

\* DELETE /api/banner/delete, the handler registered at line 886:
\* SELECT image_path FROM banner LIMIT 1 and its callback
DeleteApiBannerDeleteSelect(r) ==
    /\ At(r, "DELETE /api/banner/delete", "select")
    /\ \E err \in BOOLEAN :
        \/ /\ err
           /\ req' = [req EXCEPT ![r] = Fail(@, 500)]
        \/ /\ ~err /\ db["banner"] = {}
           /\ req' = [req EXCEPT ![r] = Reply(@, 404)]
        \/ /\ ~err
           /\ \E row \in db["banner"] :
                req' = [req EXCEPT ![r] = [@ EXCEPT !.pc = "delete", !.id = row.id,
                                                    !.ref = row.ref, !.path = Resolve(row.ref)]]
    /\ UNCHANGED <<db, nextId, disk, now, crashed>>

\* DELETE FROM banner and its callback, which starts fs.unlink
DeleteApiBannerDeleteDelete(r) ==
    /\ At(r, "DELETE /api/banner/delete", "delete")
    /\ \E err \in BOOLEAN :
        IF err
        THEN req' = [req EXCEPT ![r] = Fail(@, 500)] /\ UNCHANGED db
        ELSE req' = [req EXCEPT ![r].pc = "unlink"] /\ db' = [db EXCEPT !["banner"] = {}]
    /\ UNCHANGED <<nextId, disk, now, crashed>>

\* fs.unlink completes and its callback answers: ENOENT counts as success
DeleteApiBannerDeleteUnlink(r) ==
    /\ At(r, "DELETE /api/banner/delete", "unlink")
    /\ \E fault \in BOOLEAN :
        IF fault
        THEN req' = [req EXCEPT ![r] = Reply(@, 500)] /\ UNCHANGED disk
        ELSE req' = [req EXCEPT ![r] = Reply(@, 200)] /\ disk' = disk \ {req[r].path}
    /\ UNCHANGED <<db, nextId, now, crashed>>

\* ------------------------------------------ olympiad_students (1042-1080)
\* POST /api/students
PostApiStudents(r) ==
    /\ Accepts(r)
    /\ \E text \in BOOLEAN, filename \in Uploads :
        LET imageUrl == IF filename # <<>> THEN SlashUploads(filename) ELSE <<>>
            rec == [NoReq EXCEPT !.ep = "POST /api/students", !.text = text, !.file = filename]
        IN /\ disk' = MulterStore(filename)
           /\ req' = [req EXCEPT ![r] =
                        IF ~text \/ imageUrl = <<>>
                        THEN Reply(rec, 400)
                        ELSE [rec EXCEPT !.pc = "insert", !.ref = imageUrl]]
    /\ UNCHANGED <<db, nextId, now, crashed>>

PostApiStudentsInsert(r) ==
    /\ At(r, "POST /api/students", "insert")
    /\ \E err \in BOOLEAN :
        IF err
        THEN req' = [req EXCEPT ![r] = Fail(@, 500)] /\ UNCHANGED <<db, nextId>>
        ELSE req' = [req EXCEPT ![r] = Reply(@, 201)]
             /\ InsertInto("olympiad_students", req[r].ref)
    /\ UNCHANGED <<disk, now, crashed>>

\* req.body.image: nothing, the reference of a row the client has listed, or
\* any other string
BodyImages ==
    {<<>>, SlashUploads(<<Lit("other.png")>>)}
        \cup {row.ref : row \in db["olympiad_students"]}

\* PUT /api/students/:id: the handler issues the UPDATE
PutApiStudents(r) ==
    /\ Accepts(r)
    /\ \E id \in 1..MaxId, filename \in Uploads, image \in BodyImages :
        LET imageUrl == IF filename # <<>> THEN SlashUploads(filename) ELSE image
        IN /\ disk' = MulterStore(filename)
           /\ req' = [req EXCEPT ![r] =
                        [NoReq EXCEPT !.ep = "PUT /api/students/:id", !.pc = "update",
                                      !.id = id, !.file = filename, !.ref = imageUrl]]
    /\ UNCHANGED <<db, nextId, now, crashed>>

\* UPDATE olympiad_students SET ..., image=? WHERE id=? and its callback
PutApiStudentsUpdate(r) ==
    /\ At(r, "PUT /api/students/:id", "update")
    /\ \E err \in BOOLEAN :
        IF err
        THEN req' = [req EXCEPT ![r] = Fail(@, 500)] /\ UNCHANGED db
        ELSE /\ req' = [req EXCEPT ![r] = Reply(@, 200)]
             /\ db' = [db EXCEPT !["olympiad_students"] =
                         {IF row.id = req[r].id THEN [row EXCEPT !.ref = req[r].ref] ELSE row
                            : row \in @}]
    /\ UNCHANGED <<nextId, disk, now, crashed>>

\* ------------------------------------------------------ students (423-462)
\* POST /students
PostStudents(r) ==
    /\ Accepts(r)
    /\ \E text \in BOOLEAN, filename \in Uploads :
        LET photoPath == IF filename # <<>> THEN SlashUploads(filename) ELSE <<>>
            rec == [NoReq EXCEPT !.ep = "POST /students", !.text = text, !.file = filename]
        IN /\ disk' = MulterStore(filename)
           /\ req' = [req EXCEPT ![r] =
                        IF ~text \/ photoPath = <<>>
                        THEN Reply(rec, 400)
                        ELSE [rec EXCEPT !.pc = "insert", !.ref = photoPath]]
    /\ UNCHANGED <<db, nextId, now, crashed>>

PostStudentsInsert(r) ==
    /\ At(r, "POST /students", "insert")
    /\ \E err \in BOOLEAN :
        IF err
        THEN req' = [req EXCEPT ![r] = Fail(@, 500)] /\ UNCHANGED <<db, nextId>>
        ELSE req' = [req EXCEPT ![r] = Reply(@, 200)] /\ InsertInto("students", req[r].ref)
    /\ UNCHANGED <<disk, now, crashed>>

\* DELETE /students/:id: the handler issues the SELECT
DeleteStudents(r) ==
    /\ Accepts(r)
    /\ \E id \in 1..MaxId :
        req' = [req EXCEPT ![r] =
                  [NoReq EXCEPT !.ep = "DELETE /students/:id", !.pc = "select", !.id = id]]
    /\ UNCHANGED <<db, nextId, disk, now, crashed>>

\* the SELECT and its callback: an error and an empty result are both 404;
\* otherwise fs.unlinkSync("." + photo) runs inside the callback, where a
\* throw (the file is missing) is caught by nothing and ends the process
DeleteStudentsSelect(r) ==
    /\ At(r, "DELETE /students/:id", "select")
    /\ \E err \in BOOLEAN :
        IF err
        THEN req' = [req EXCEPT ![r] = Fail(@, 404)] /\ UNCHANGED <<disk, crashed>>
        ELSE IF RowsById("students", req[r].id) = {}
        THEN req' = [req EXCEPT ![r] = Reply(@, 404)] /\ UNCHANGED <<disk, crashed>>
        ELSE LET row == CHOOSE x \in RowsById("students", req[r].id) : TRUE
                 file == Resolve(<<Lit(".")>> \o row.ref)
             IN IF row.ref # <<>> /\ file \notin disk
                THEN crashed' = TRUE /\ UNCHANGED <<req, disk>>
                ELSE /\ req' = [req EXCEPT ![r] = [@ EXCEPT !.pc = "delete", !.ref = row.ref,
                                                            !.path = file]]
                     /\ disk' = disk \ {file}
                     /\ UNCHANGED crashed
    /\ UNCHANGED <<db, nextId, now>>

DeleteStudentsDelete(r) ==
    /\ At(r, "DELETE /students/:id", "delete")
    /\ \E err \in BOOLEAN :
        IF err
        THEN req' = [req EXCEPT ![r] = Fail(@, 500)] /\ UNCHANGED <<db, nextId>>
        ELSE req' = [req EXCEPT ![r] = Reply(@, 200)] /\ DeleteFrom("students", req[r].id)
    /\ UNCHANGED <<disk, now, crashed>>

\* ------------------------------------------------- assignments (551-567)
\* POST /upload-assignment
PostUploadAssignment(r) ==
    /\ Accepts(r)
    /\ \E text \in BOOLEAN, filename \in Uploads :
        LET filePath == IF filename # <<>> THEN SlashUploads(filename) ELSE <<>>
            rec == [NoReq EXCEPT !.ep = "POST /upload-assignment", !.text = text,
                                 !.file = filename]
        IN /\ disk' = MulterStore(filename)
           /\ req' = [req EXCEPT ![r] =
                        IF ~text \/ filePath = <<>>
                        THEN Reply(rec, 400)
                        ELSE [rec EXCEPT !.pc = "insert", !.ref = filePath]]
    /\ UNCHANGED <<db, nextId, now, crashed>>

PostUploadAssignmentInsert(r) ==
    /\ At(r, "POST /upload-assignment", "insert")
    /\ \E err \in BOOLEAN :
        IF err
        THEN req' = [req EXCEPT ![r] = Fail(@, 500)] /\ UNCHANGED <<db, nextId>>
        ELSE req' = [req EXCEPT ![r] = Reply(@, 201)]
             /\ InsertInto("assignments", req[r].ref)
    /\ UNCHANGED <<disk, now, crashed>>

\* UPDATE t SET <file column> = ? WHERE id = ?
UpdateRef(t, id, ref) ==
    db' = [db EXCEPT ![t] = {IF row.id = id THEN [row EXCEPT !.ref = ref] ELSE row : row \in @}]

\* ----------------------------------- uniquer_olympiad_courses (1260-1290)
\* POST /olympiad/add-course: nothing is validated, the image is optional
PostOlympiadAddCourse(r) ==
    /\ Accepts(r)
    /\ \E filename \in Uploads :
        LET image == IF filename # <<>> THEN SlashUploads(filename) ELSE <<>>
        IN /\ disk' = MulterStore(filename)
           /\ req' = [req EXCEPT ![r] =
                        [NoReq EXCEPT !.ep = "POST /olympiad/add-course", !.pc = "insert",
                                      !.file = filename, !.ref = image]]
    /\ UNCHANGED <<db, nextId, now, crashed>>

PostOlympiadAddCourseInsert(r) ==
    /\ At(r, "POST /olympiad/add-course", "insert")
    /\ \E err \in BOOLEAN :
        IF err
        THEN req' = [req EXCEPT ![r] = Fail(@, 500)] /\ UNCHANGED <<db, nextId>>
        ELSE req' = [req EXCEPT ![r] = Reply(@, 201)]
             /\ InsertInto("uniquer_olympiad_courses", req[r].ref)
    /\ UNCHANGED <<disk, now, crashed>>

\* PUT /olympiad/update-course/:id: image = ? is part of the statement only
\* when the request carries a file
PutOlympiadUpdateCourse(r) ==
    /\ Accepts(r)
    /\ \E id \in 1..MaxId, filename \in Uploads :
        LET image == IF filename # <<>> THEN SlashUploads(filename) ELSE <<>>
        IN /\ disk' = MulterStore(filename)
           /\ req' = [req EXCEPT ![r] =
                        [NoReq EXCEPT !.ep = "PUT /olympiad/update-course/:id",
                                      !.pc = "update", !.id = id, !.file = filename,
                                      !.ref = image]]
    /\ UNCHANGED <<db, nextId, now, crashed>>

PutOlympiadUpdateCourseUpdate(r) ==
    /\ At(r, "PUT /olympiad/update-course/:id", "update")
    /\ \E err \in BOOLEAN :
        IF err
        THEN req' = [req EXCEPT ![r] = Fail(@, 500)] /\ UNCHANGED db
        ELSE /\ req' = [req EXCEPT ![r] = Reply(@, 200)]
             /\ IF req[r].ref # <<>>
                THEN UpdateRef("uniquer_olympiad_courses", req[r].id, req[r].ref)
                ELSE UNCHANGED db
    /\ UNCHANGED <<nextId, disk, now, crashed>>

\* ------------------------------------------- olympiad_course (1131-1146)
\* PUT /update-course/:id.  No route of this server inserts into
\* olympiad_course: POST /add-course reaches the handler registered first,
\* which writes to another table.
PutUpdateCourse(r) ==
    /\ Accepts(r)
    /\ \E id \in 1..MaxId, filename \in Uploads,
          bodyImage \in {<<>>, SlashUploads(<<Lit("other.png")>>)} :
        LET image == IF filename # <<>> THEN SlashUploads(filename) ELSE bodyImage
        IN /\ disk' = MulterStore(filename)
           /\ req' = [req EXCEPT ![r] =
                        [NoReq EXCEPT !.ep = "PUT /update-course/:id", !.pc = "update",
                                      !.id = id, !.file = filename, !.ref = image]]
    /\ UNCHANGED <<db, nextId, now, crashed>>

PutUpdateCourseUpdate(r) ==
    /\ At(r, "PUT /update-course/:id", "update")
    /\ \E err \in BOOLEAN :
        IF err
        THEN req' = [req EXCEPT ![r] = Fail(@, 500)] /\ UNCHANGED db
        ELSE /\ req' = [req EXCEPT ![r] = Reply(@, 200)]
             /\ UpdateRef("olympiad_course", req[r].id, req[r].ref)
    /\ UNCHANGED <<nextId, disk, now, crashed>>

\* ------------------------------------- updates without a file (203, 1182-1230)
\* PUT /courses/:id
PutCourses(r) ==
    /\ Accepts(r)
    /\ \E id \in 1..MaxId :
        req' = [req EXCEPT ![r] =
                  [NoReq EXCEPT !.ep = "PUT /courses/:id", !.pc = "update", !.id = id]]
    /\ UNCHANGED <<db, nextId, disk, now, crashed>>

\* UPDATE courses SET name = ?, description = ? WHERE id = ? and its callback:
\* the columns it writes are not part of a row here
PutCoursesUpdate(r) ==
    /\ At(r, "PUT /courses/:id", "update")
    /\ \E err \in BOOLEAN : req' = [req EXCEPT ![r] = IF err THEN Fail(@, 500) ELSE Reply(@, 200)]
    /\ UNCHANGED <<db, nextId, disk, now, crashed>>

\* POST /testimonials
PostTestimonials(r) ==
    /\ Accepts(r)
    /\ req' = [req EXCEPT ![r] = [NoReq EXCEPT !.ep = "POST /testimonials", !.pc = "insert"]]
    /\ UNCHANGED <<db, nextId, disk, now, crashed>>

PostTestimonialsInsert(r) ==
    /\ At(r, "POST /testimonials", "insert")
    /\ \E err \in BOOLEAN :
        IF err
        THEN req' = [req EXCEPT ![r] = Fail(@, 500)] /\ UNCHANGED <<db, nextId>>
        ELSE req' = [req EXCEPT ![r] = Reply(@, 200)] /\ InsertInto("testimonials", <<>>)
    /\ UNCHANGED <<disk, now, crashed>>

\* PUT /testimonials/:id
PutTestimonials(r) ==
    /\ Accepts(r)
    /\ \E id \in 1..MaxId :
        req' = [req EXCEPT ![r] =
                  [NoReq EXCEPT !.ep = "PUT /testimonials/:id", !.pc = "update", !.id = id]]
    /\ UNCHANGED <<db, nextId, disk, now, crashed>>

PutTestimonialsUpdate(r) ==
    /\ At(r, "PUT /testimonials/:id", "update")
    /\ \E err \in BOOLEAN : req' = [req EXCEPT ![r] = IF err THEN Fail(@, 500) ELSE Reply(@, 200)]
    /\ UNCHANGED <<db, nextId, disk, now, crashed>>

\* the days POST /api/timetable/init inserts, numbered; 0 stands for a :day
\* that is none of them
Days == 1..MaxId

\* POST /api/timetable/init
PostApiTimetableInit(r) ==
    /\ Accepts(r)
    /\ req' = [req EXCEPT ![r] =
                 [NoReq EXCEPT !.ep = "POST /api/timetable/init", !.pc = "insert"]]
    /\ UNCHANGED <<db, nextId, disk, now, crashed>>

\* INSERT INTO timetable (day, class1, class2) VALUES ? and its callback: a
\* row is identified by its day
PostApiTimetableInitInsert(r) ==
    /\ At(r, "POST /api/timetable/init", "insert")
    /\ \E err \in BOOLEAN :
        IF err
        THEN req' = [req EXCEPT ![r] = Fail(@, 500)] /\ UNCHANGED db
        ELSE /\ req' = [req EXCEPT ![r] = Reply(@, 200)]
             /\ db' = [db EXCEPT !["timetable"] = @ \cup {[id |-> d, ref |-> <<>>] : d \in Days}]
    /\ UNCHANGED <<nextId, disk, now, crashed>>

\* PUT /api/timetable/:day
PutApiTimetable(r) ==
    /\ Accepts(r)
    /\ \E day \in {0} \cup Days :
        req' = [req EXCEPT ![r] =
                  [NoReq EXCEPT !.ep = "PUT /api/timetable/:day", !.pc = "update", !.id = day]]
    /\ UNCHANGED <<db, nextId, disk, now, crashed>>

PutApiTimetableUpdate(r) ==
    /\ At(r, "PUT /api/timetable/:day", "update")
    /\ \E err \in BOOLEAN : req' = [req EXCEPT ![r] = IF err THEN Fail(@, 500) ELSE Reply(@, 200)]
    /\ UNCHANGED <<db, nextId, disk, now, crashed>>

\* ------------------------------------------------ blog_banners (1344-1392)
\* POST /api/blog/upload-banner: the row stores an absolute URL
PostApiBlogUploadBanner(r) ==
    /\ Accepts(r)
    /\ \E filename \in Uploads :
        LET imageUrl == <<Origin>> \o SlashUploads(filename)
            rec == [NoReq EXCEPT !.ep = "POST /api/blog/upload-banner", !.text = TRUE,
                                 !.file = filename]
        IN /\ disk' = MulterStore(filename)
           /\ req' = [req EXCEPT ![r] =
                        IF filename = <<>> THEN Reply(rec, 400)
                        ELSE [rec EXCEPT !.pc = "insert", !.ref = imageUrl]]
    /\ UNCHANGED <<db, nextId, now, crashed>>

PostApiBlogUploadBannerInsert(r) ==
    /\ At(r, "POST /api/blog/upload-banner", "insert")
    /\ \E err \in BOOLEAN :
        IF err
        THEN req' = [req EXCEPT ![r] = Fail(@, 500)] /\ UNCHANGED <<db, nextId>>
        ELSE req' = [req EXCEPT ![r] = Reply(@, 200)]
             /\ InsertInto("blog_banners", req[r].ref)
    /\ UNCHANGED <<disk, now, crashed>>

\* DELETE /api/blog/delete-banner/:id: the handler issues the SELECT
DeleteApiBlogDeleteBanner(r) ==
    /\ Accepts(r)
    /\ \E id \in 1..MaxId :
        req' = [req EXCEPT ![r] =
                  [NoReq EXCEPT !.ep = "DELETE /api/blog/delete-banner/:id",
                                !.pc = "select", !.id = id]]
    /\ UNCHANGED <<db, nextId, disk, now, crashed>>

\* the SELECT and its callback: an error and an empty result are both 404;
\* otherwise fs.unlink is started and the DELETE is issued at once
DeleteApiBlogDeleteBannerSelect(r) ==
    /\ At(r, "DELETE /api/blog/delete-banner/:id", "select")
    /\ \E err \in BOOLEAN :
        req' = [req EXCEPT ![r] =
                  IF err THEN Fail(@, 404)
                  ELSE IF RowsById("blog_banners", @.id) = {} THEN Reply(@, 404)
                  ELSE LET row == CHOOSE x \in RowsById("blog_banners", @.id) : TRUE
                       IN [@ EXCEPT !.pc = "delete", !.ref = row.ref, !.unlink = "inflight",
                                    !.path = Resolve(PathJoin(UploadDir, Basename(row.ref)))]]
    /\ UNCHANGED <<db, nextId, disk, now, crashed>>

DeleteApiBlogDeleteBannerDelete(r) ==
    /\ At(r, "DELETE /api/blog/delete-banner/:id", "delete")
    /\ \E err \in BOOLEAN :
        IF err
        THEN req' = [req EXCEPT ![r] = Fail(@, 500)] /\ UNCHANGED <<db, nextId>>
        ELSE req' = [req EXCEPT ![r] = Reply(@, 200)]
             /\ DeleteFrom("blog_banners", req[r].id)
    /\ UNCHANGED <<disk, now, crashed>>

\* ------------------------------------------------------- blogs (1396-1430)
\* POST /api/blogs: nothing is validated, the image is optional
PostApiBlogs(r) ==
    /\ Accepts(r)
    /\ \E filename \in Uploads :
        LET imagePath == IF filename # <<>> THEN SlashUploads(filename) ELSE <<>>
        IN /\ disk' = MulterStore(filename)
           /\ req' = [req EXCEPT ![r] =
                        [NoReq EXCEPT !.ep = "POST /api/blogs", !.pc = "insert",
                                      !.file = filename, !.ref = imagePath]]
    /\ UNCHANGED <<db, nextId, now, crashed>>

PostApiBlogsInsert(r) ==
    /\ At(r, "POST /api/blogs", "insert")
    /\ \E err \in BOOLEAN :
        IF err
        THEN req' = [req EXCEPT ![r] = Fail(@, 500)] /\ UNCHANGED <<db, nextId>>
        ELSE req' = [req EXCEPT ![r] = Reply(@, 201)] /\ InsertInto("blogs", req[r].ref)
    /\ UNCHANGED <<disk, now, crashed>>

\* DELETE /api/blogs/:id: the handler issues the SELECT
DeleteApiBlogs(r) ==
    /\ Accepts(r)
    /\ \E id \in 1..MaxId :
        req' = [req EXCEPT ![r] =
                  [NoReq EXCEPT !.ep = "DELETE /api/blogs/:id", !.pc = "select", !.id = id]]
    /\ UNCHANGED <<db, nextId, disk, now, crashed>>

\* the SELECT and its callback: fs.unlinkSync(`.${imagePath}`) runs inside the
\* callback, where a throw (the file is missing) is caught by nothing and ends
\* the process
DeleteApiBlogsSelect(r) ==
    /\ At(r, "DELETE /api/blogs/:id", "select")
    /\ \E err \in BOOLEAN :
        IF err
        THEN req' = [req EXCEPT ![r] = Fail(@, 500)] /\ UNCHANGED <<disk, crashed>>
        ELSE IF RowsById("blogs", req[r].id) = {}
        THEN req' = [req EXCEPT ![r] = Reply(@, 404)] /\ UNCHANGED <<disk, crashed>>
        ELSE LET row == CHOOSE x \in RowsById("blogs", req[r].id) : TRUE
                 file == Resolve(<<Lit(".")>> \o row.ref)
             IN IF row.ref # <<>> /\ file \notin disk
                THEN crashed' = TRUE /\ UNCHANGED <<req, disk>>
                ELSE /\ req' = [req EXCEPT ![r] = [@ EXCEPT !.pc = "delete", !.ref = row.ref,
                                                            !.path = file]]
                     /\ disk' = IF row.ref # <<>> THEN disk \ {file} ELSE disk
                     /\ UNCHANGED crashed
    /\ UNCHANGED <<db, nextId, now>>

DeleteApiBlogsDelete(r) ==
    /\ At(r, "DELETE /api/blogs/:id", "delete")
    /\ \E err \in BOOLEAN :
        IF err
        THEN req' = [req EXCEPT ![r] = Fail(@, 500)] /\ UNCHANGED <<db, nextId>>
        ELSE req' = [req EXCEPT ![r] = Reply(@, 200)] /\ DeleteFrom("blogs", req[r].id)
    /\ UNCHANGED <<disk, now, crashed>>

\* ---------------------------------------------- GET /explorecourse (221-249)
\* the largest number sent as page or limit
MaxPage == 2
QueryValues == {Absent, Lit("abc")} \cup {Num(n) : n \in -1..MaxPage}

\* the order in which a scan without ORDER BY yields the rows: the primary
\* key's
TableOrder(rows) ==
    CHOOSE s \in [1..Cardinality(rows) -> rows] :
        \A i, j \in 1..Cardinality(rows) : i < j => s[i].id < s[j].id

\* (mutant) the offset skips the requested page as well
GetExplorecourseSkipsPage(r) ==
    /\ Accepts(r)
    /\ \E rawPage \in QueryValues, rawLimit \in QueryValues, search \in BOOLEAN :
        LET page == OrDefault(ParseInt(rawPage), DefaultPage)
            limit == OrDefault(ParseInt(rawLimit), DefaultLimit)
            offset == page * limit
        IN req' = [req EXCEPT ![r] =
                     [NoReq EXCEPT !.ep = "GET /explorecourse", !.pc = "select",
                                   !.query = [page |-> rawPage, limit |-> rawLimit,
                                              search |-> search],
                                   !.page = page, !.limit = limit, !.offset = offset]]
    /\ UNCHANGED <<db, nextId, disk, now, crashed>>

\* the handler up to db.query
GetExplorecourse(r) ==
    /\ Accepts(r)
    /\ \E rawPage \in QueryValues, rawLimit \in QueryValues, search \in BOOLEAN :
        LET page == OrDefault(ParseInt(rawPage), DefaultPage)
            limit == OrDefault(ParseInt(rawLimit), DefaultLimit)
            offset == (page - 1) * limit
        IN req' = [req EXCEPT ![r] =
                     [NoReq EXCEPT !.ep = "GET /explorecourse", !.pc = "select",
                                   !.query = [page |-> rawPage, limit |-> rawLimit,
                                              search |-> search],
                                   !.page = page, !.limit = limit, !.offset = offset]]
    /\ UNCHANGED <<db, nextId, disk, now, crashed>>

\* SELECT * FROM explorecourses WHERE 1=1 [AND name LIKE ?] LIMIT ? OFFSET ?
\* and its callback.  A negative LIMIT or OFFSET is a syntax error; with a
\* search term the rows whose name matches are some of the rows.  What is left
\* of the request is its response: the status and {page, limit, courses}.
GetExplorecourseSelect(r) ==
    /\ At(r, "GET /explorecourse", "select")
    /\ \E err \in BOOLEAN, matching \in SUBSET db["explorecourses"] :
        /\ ~req[r].query.search => matching = db["explorecourses"]
        /\ (req[r].limit < 0 \/ req[r].offset < 0) => err
        /\ LET found == TableOrder(matching)
               first == req[r].offset + 1
               last == IF req[r].offset + req[r].limit < Len(found)
                       THEN req[r].offset + req[r].limit ELSE Len(found)
               sent == [NoReq EXCEPT !.ep = req[r].ep]
           IN req' = [req EXCEPT ![r] =
                        IF err THEN Fail(sent, 500)
                        ELSE Reply([sent EXCEPT !.page = req[r].page,
                                                !.limit = req[r].limit,
                                                !.rows = SubSeq(found, first, last)], 200)]
    /\ UNCHANGED <<db, nextId, disk, now, crashed>>

\* ------------------------------------------------ users (62-117)
\* req.body.email and req.body.password, sent as strings; "" is a field that
\* was not sent
Emails == {"ann@x", "bob@x"}
Passwords == {"pw1", "pw2"}
\* the salts bcrypt.hash may draw
Salts == {"salt1", "salt2"}
\* bcrypt.hash(password, 10): the hash carries its salt
Hash(password, salt) == <<"$2b$10$", salt, password>>
\* bcrypt.compare(password, hash): hash the password with the salt of the
\* stored hash and compare
Compare(password, hash) == Hash(password, hash[2]) = hash
\* SELECT * FROM users WHERE email = ?
UsersByEmail(email) == {row \in db["users"] : row.email = email}

\* POST /register: the handler up to db.query
Register(r) ==
    /\ Accepts(r)
    /\ \E fullName \in BOOLEAN, email \in {""} \cup Emails, password \in {""} \cup Passwords :
        LET rec == [NoReq EXCEPT !.ep = "POST /register", !.text = fullName,
                                 !.email = email, !.password = password]
        IN req' = [req EXCEPT ![r] =
                     IF ~fullName \/ email = "" \/ password = ""
                     THEN [Reply(rec, 400) EXCEPT !.error = "All fields are required"]
                     ELSE [rec EXCEPT !.pc = "select"]]
    /\ UNCHANGED <<db, nextId, disk, now, crashed>>

\* the SELECT and its callback, up to await bcrypt.hash
RegisterSelect(r) ==
    /\ At(r, "POST /register", "select")
    /\ \E err \in BOOLEAN :
        req' = [req EXCEPT ![r] =
                  IF err THEN [Fail(@, 500) EXCEPT !.error = "err.message"]
                  ELSE IF UsersByEmail(@.email) # {}
                  THEN [Reply(@, 400) EXCEPT !.error = "Email already in use"]
                  ELSE [@ EXCEPT !.pc = "hash"]]
    /\ UNCHANGED <<db, nextId, disk, now, crashed>>

\* bcrypt.hash resolves and the callback goes on to issue the INSERT
RegisterHash(r) ==
    /\ At(r, "POST /register", "hash")
    /\ \E salt \in Salts :
        req' = [req EXCEPT ![r] = [@ EXCEPT !.pc = "insert",
                                            !.hash = Hash(req[r].password, salt)]]
    /\ UNCHANGED <<db, nextId, disk, now, crashed>>

\* INSERT INTO users (fullName, email, password) and its callback
RegisterInsert(r) ==
    /\ At(r, "POST /register", "insert")
    /\ \E err \in BOOLEAN :
        IF err
        THEN /\ req' = [req EXCEPT ![r] = [Fail(@, 500) EXCEPT !.error = "err.message"]]
             /\ UNCHANGED <<db, nextId>>
        ELSE /\ req' = [req EXCEPT ![r] = Reply(@, 201)]
             /\ db' = [db EXCEPT !["users"] =
                         @ \cup {[id |-> nextId["users"], email |-> req[r].email,
                                  password |-> req[r].hash]}]
             /\ nextId' = [nextId EXCEPT !["users"] = @ + 1]
    /\ UNCHANGED <<disk, now, crashed>>

\* POST /login: the handler up to db.query
Login(r) ==
    /\ Accepts(r)
    /\ \E email \in {""} \cup Emails, password \in {""} \cup Passwords :
        LET rec == [NoReq EXCEPT !.ep = "POST /login", !.email = email,
                                 !.password = password]
        IN req' = [req EXCEPT ![r] =
                     IF email = "" \/ password = ""
                     THEN [Reply(rec, 400) EXCEPT !.error = "All fields are required"]
                     ELSE [rec EXCEPT !.pc = "select"]]
    /\ UNCHANGED <<db, nextId, disk, now, crashed>>

\* the SELECT and its callback, up to await bcrypt.compare: user = results[0]
LoginSelect(r) ==
    /\ At(r, "POST /login", "select")
    /\ \E err \in BOOLEAN :
        req' = [req EXCEPT ![r] =
                  IF err THEN [Fail(@, 500) EXCEPT !.error = "err.message"]
                  ELSE IF UsersByEmail(@.email) = {}
                  THEN [Reply(@, 400) EXCEPT !.error = "Invalid email or password"]
                  ELSE [@ EXCEPT !.pc = "compare",
                                 !.id = TableOrder(UsersByEmail(req[r].email))[1].id,
                                 !.hash = TableOrder(UsersByEmail(req[r].email))[1].password]]
    /\ UNCHANGED <<db, nextId, disk, now, crashed>>

\* (mutant) the password is not compared
LoginCompareAcceptsAny(r) ==
    /\ At(r, "POST /login", "compare")
    /\ req' = [req EXCEPT ![r] = Reply(@, 200)]
    /\ UNCHANGED <<db, nextId, disk, now, crashed>>

\* bcrypt.compare resolves and the callback answers
LoginCompare(r) ==
    /\ At(r, "POST /login", "compare")
    /\ req' = [req EXCEPT ![r] =
                 IF Compare(@.password, @.hash) THEN Reply(@, 200)
                 ELSE [Reply(@, 400) EXCEPT !.error = "Invalid email or password"]]
    /\ UNCHANGED <<db, nextId, disk, now, crashed>>

\* ------------------------------- titles, admin_details (667-689, 765-812)
\* what a client posts as (title, subtitle), and as the admin details
Titles == {"Title A", "Title B"}
Details == {"Details A", "Details B"}
\* the row GET /api/title inserts: (1, "Default Title", "Default Subtitle")
DefaultTitle == "Default Title"
\* a row of a one-row table: id is the column the statements name, n tells
\* two stored rows with equal columns apart
Single(t, id, values) == [id |-> id, n |-> nextId[t], values |-> values]
\* UPDATE t SET ... = ? WHERE id = 1
UpdateSingle(t, values) ==
    /\ db' = [db EXCEPT ![t] =
                {IF row.id = 1 THEN [row EXCEPT !.values = values] ELSE row : row \in @}]
    /\ UNCHANGED nextId

\* GET /api/title
GetApiTitle(r) ==
    /\ Accepts(r)
    /\ req' = [req EXCEPT ![r] = [NoReq EXCEPT !.ep = "GET /api/title", !.pc = "select"]]
    /\ UNCHANGED <<db, nextId, disk, now, crashed>>

\* SELECT title, subtitle FROM titles LIMIT 1 and its callback: without an
\* ORDER BY any stored row may be the one returned
GetApiTitleSelect(r) ==
    /\ At(r, "GET /api/title", "select")
    /\ \E err \in BOOLEAN :
        IF err
        THEN req' = [req EXCEPT ![r] = Fail(@, 500)]
        ELSE IF db["titles"] = {}
        THEN req' = [req EXCEPT ![r].pc = "insert"]
        ELSE \E row \in db["titles"] :
               req' = [req EXCEPT ![r] = [Reply(@, 200) EXCEPT !.body = row.values]]
    /\ UNCHANGED <<db, nextId, disk, now, crashed>>

\* INSERT INTO titles (id, title, subtitle) VALUES (1, ...) and its callback.
\* The table's definition is not part of the program: when a row with id 1 is
\* already stored, the statement fails with a duplicate-key error if id is a
\* key of the table and stores a second row if it is not.
GetApiTitleInsert(r) ==
    /\ At(r, "GET /api/title", "insert")
    /\ \E outcome \in {"ok", "failed", "ER_DUP_ENTRY"} :
        /\ outcome = "ER_DUP_ENTRY" => RowsById("titles", 1) # {}
        /\ IF outcome = "ok"
           THEN /\ db' = [db EXCEPT !["titles"] = @ \cup {Single("titles", 1, DefaultTitle)}]
                /\ nextId' = [nextId EXCEPT !["titles"] = @ + 1]
                /\ req' = [req EXCEPT ![r] = [Reply(@, 200) EXCEPT !.body = DefaultTitle]]
           ELSE /\ req' = [req EXCEPT ![r] = [Reply(@, 500) EXCEPT !.dberr = outcome]]
                /\ UNCHANGED <<db, nextId>>
    /\ UNCHANGED <<disk, now, crashed>>

\* POST /api/title: body "" stands for a missing title or subtitle
PostApiTitle(r) ==
    /\ Accepts(r)
    /\ \E body \in Titles \cup {""} :
        LET rec == [NoReq EXCEPT !.ep = "POST /api/title", !.body = body]
        IN req' = [req EXCEPT ![r] =
                     IF body = "" THEN Reply(rec, 400) ELSE [rec EXCEPT !.pc = "update"]]
    /\ UNCHANGED <<db, nextId, disk, now, crashed>>

\* UPDATE titles SET title = ?, subtitle = ? WHERE id = 1 and its callback
PostApiTitleUpdate(r) ==
    /\ At(r, "POST /api/title", "update")
    /\ \E err \in BOOLEAN :
        IF err
        THEN /\ req' = [req EXCEPT ![r] = Fail(@, 500)]
             /\ UNCHANGED <<db, nextId>>
        ELSE /\ UpdateSingle("titles", req[r].body)
             /\ req' = [req EXCEPT ![r] = Reply(@, 200)]
    /\ UNCHANGED <<disk, now, crashed>>

\* GET /api/details
GetApiDetails(r) ==
    /\ Accepts(r)
    /\ req' = [req EXCEPT ![r] = [NoReq EXCEPT !.ep = "GET /api/details", !.pc = "select"]]
    /\ UNCHANGED <<db, nextId, disk, now, crashed>>

\* SELECT * FROM admin_details LIMIT 1 and its callback: res.json(result[0]),
\* which is no value at all when the table is empty
GetApiDetailsSelect(r) ==
    /\ At(r, "GET /api/details", "select")
    /\ \E err \in BOOLEAN :
        IF err
        THEN req' = [req EXCEPT ![r] = [Fail(@, 500) EXCEPT !.error = "err.message"]]
        ELSE IF db["admin_details"] = {}
        THEN req' = [req EXCEPT ![r] = Reply(@, 200)]
        ELSE \E row \in db["admin_details"] :
               req' = [req EXCEPT ![r] = [Reply(@, 200) EXCEPT !.body = row.values]]
    /\ UNCHANGED <<db, nextId, disk, now, crashed>>

\* POST /api/update: the handler validates nothing
PostApiUpdate(r) ==
    /\ Accepts(r)
    /\ \E body \in Details :
        req' = [req EXCEPT ![r] =
                  [NoReq EXCEPT !.ep = "POST /api/update", !.pc = "update", !.body = body]]
    /\ UNCHANGED <<db, nextId, disk, now, crashed>>

\* UPDATE admin_details SET ... WHERE id = 1 and its callback
PostApiUpdateUpdate(r) ==
    /\ At(r, "POST /api/update", "update")
    /\ \E err \in BOOLEAN :
        IF err
        THEN /\ req' = [req EXCEPT ![r] = [Fail(@, 500) EXCEPT !.error = "err.message"]]
             /\ UNCHANGED <<db, nextId>>
        ELSE /\ UpdateSingle("admin_details", req[r].body)
             /\ req' = [req EXCEPT ![r] = Reply(@, 200)]
    /\ UNCHANGED <<disk, now, crashed>>

NextBanners ==
    \/ Tick
    \/ \E r \in Reqs :
        \/ UnlinkDone(r)
        \/ PostApiBanner(r)
        \/ PostApiBannerInsert(r)
        \/ DeleteApiBanner(r)
        \/ DeleteApiBannerSelect(r)
        \/ DeleteApiBannerDelete(r)
        \/ PostApiJeebanner(r)
        \/ PostApiJeebannerInsert(r)
        \/ DeleteApiJeebanner(r)
        \/ DeleteApiJeebannerDelete(r)
        \/ PostApiV1BannerUpload(r)
        \/ PostApiV1BannerUploadInsert(r)
        \/ DeleteApiV1Banner(r)
        \/ DeleteApiV1BannerSelect(r)
        \/ DeleteApiV1BannerDelete(r)
        \/ PostApiBannerUpload(r)
        \/ PostApiBannerUploadClear(r)
        \/ PostApiBannerUploadInsert(r)

SpecBanners == Init /\ [][NextBanners]_vars

NextCourses ==
    \/ Tick
    \/ \E r \in Reqs :
        \/ PostCourses(r)
        \/ PostCoursesInsert(r)
        \/ DeleteCourses(r)
        \/ DeleteCoursesDelete(r)
        \/ PostExplorecourse(r)
        \/ PostExplorecourseInsert(r)
        \/ DeleteExplorecourse(r)
        \/ DeleteExplorecourseSelect(r)
        \/ DeleteExplorecourseDelete(r)
        \/ PostStories(r)
        \/ PostStoriesInsert(r)
        \/ DeleteStories(r)
        \/ DeleteStoriesDelete(r)
        \/ PostStudyMaterialUpload(r)
        \/ PostStudyMaterialUploadInsert(r)
        \/ DeleteStudyMaterial(r)
        \/ DeleteStudyMaterialDelete(r)
        \/ PostUploadAssignment(r)
        \/ PostUploadAssignmentInsert(r)

SpecCourses == Init /\ [][NextCourses]_vars

\* the one-row banner table alone, requests overlapping
NextUpload ==
    \/ Tick
    \/ \E r \in Reqs :
        \/ PostApiBannerUpload(r)
        \/ PostApiBannerUploadClear(r)
        \/ PostApiBannerUploadInsert(r)

SpecUpload == Init /\ [][NextUpload]_vars

NextStudents ==
    \/ Tick
    \/ \E r \in Reqs :
        \/ PostApiStudents(r)
        \/ PostApiStudentsInsert(r)
        \/ PutApiStudents(r)
        \/ PutApiStudentsUpdate(r)
        \/ PostStudents(r)
        \/ PostStudentsInsert(r)
        \/ DeleteStudents(r)
        \/ DeleteStudentsSelect(r)
        \/ DeleteStudentsDelete(r)

SpecStudents == Init /\ [][NextStudents]_vars

NextBlogs ==
    \/ Tick
    \/ \E r \in Reqs :
        \/ UnlinkDone(r)
        \/ PostApiBlogUploadBanner(r)
        \/ PostApiBlogUploadBannerInsert(r)
        \/ DeleteApiBlogDeleteBanner(r)
        \/ DeleteApiBlogDeleteBannerSelect(r)
        \/ DeleteApiBlogDeleteBannerDelete(r)
        \/ PostApiBlogs(r)
        \/ PostApiBlogsInsert(r)
        \/ DeleteApiBlogs(r)
        \/ DeleteApiBlogsSelect(r)
        \/ DeleteApiBlogsDelete(r)

SpecBlogs == Init /\ [][NextBlogs]_vars

\* the explorecourses table and its paged listing
NextExplore ==
    \/ \E r \in Reqs :
        \/ PostExplorecourse(r)
        \/ PostExplorecourseInsert(r)
        \/ DeleteExplorecourse(r)
        \/ DeleteExplorecourseSelect(r)
        \/ DeleteExplorecourseDelete(r)
        \/ GetExplorecourse(r)
        \/ GetExplorecourseSelect(r)

SpecExplore == Init /\ [][NextExplore]_vars

\* the users table: registration and login
NextAuth ==
    \/ \E r \in Reqs :
        \/ Register(r)
        \/ RegisterSelect(r)
        \/ RegisterHash(r)
        \/ RegisterInsert(r)
        \/ Login(r)
        \/ LoginSelect(r)
        \/ LoginCompare(r)

SpecAuth == Init /\ [][NextAuth]_vars

\* the updates that may carry a new file
NextUpdates ==
    \/ Tick
    \/ \E r \in Reqs :
        \/ PostApiStudents(r)
        \/ PostApiStudentsInsert(r)
        \/ PutApiStudents(r)
        \/ PutApiStudentsUpdate(r)
        \/ PostOlympiadAddCourse(r)
        \/ PostOlympiadAddCourseInsert(r)
        \/ PutOlympiadUpdateCourse(r)
        \/ PutOlympiadUpdateCourseUpdate(r)
        \/ PutUpdateCourse(r)
        \/ PutUpdateCourseUpdate(r)

SpecUpdates == Init /\ [][NextUpdates]_vars

\* every update endpoint, with the creates that fill their tables
NextEdits ==
    \/ \E r \in Reqs :
        \/ PostCourses(r)
        \/ PostCoursesInsert(r)
        \/ PutCourses(r)
        \/ PutCoursesUpdate(r)
        \/ PostTestimonials(r)
        \/ PostTestimonialsInsert(r)
        \/ PutTestimonials(r)
        \/ PutTestimonialsUpdate(r)
        \/ PostApiTimetableInit(r)
        \/ PostApiTimetableInitInsert(r)
        \/ PutApiTimetable(r)
        \/ PutApiTimetableUpdate(r)
        \/ PostApiStudents(r)
        \/ PostApiStudentsInsert(r)
        \/ PutApiStudents(r)
        \/ PutApiStudentsUpdate(r)
        \/ PutOlympiadUpdateCourse(r)
        \/ PutOlympiadUpdateCourseUpdate(r)
        \/ PutUpdateCourse(r)
        \/ PutUpdateCourseUpdate(r)

SpecEdits == Init /\ [][NextEdits]_vars

\* the one-row banner table, each request running to completion before the
\* next one arrives
Idle == \A q \in Reqs : req[q].pc \in {"new", "done"}

PostApiBannerUploadAlone(r) == Idle /\ PostApiBannerUpload(r)

NextSequential ==
    \/ Tick
    \/ \E r \in Reqs :
        \/ PostApiBannerUploadAlone(r)
        \/ PostApiBannerUploadClear(r)
        \/ PostApiBannerUploadInsert(r)

SpecSequential == Init /\ [][NextSequential]_vars

NextSingles ==
    \E r \in Reqs :
        \/ GetApiTitle(r)
        \/ GetApiTitleSelect(r)
        \/ GetApiTitleInsert(r)
        \/ PostApiTitle(r)
        \/ PostApiTitleUpdate(r)
        \/ GetApiDetails(r)
        \/ GetApiDetailsSelect(r)
        \/ PostApiUpdate(r)
        \/ PostApiUpdateUpdate(r)

SpecSingles == Init /\ [][NextSingles]_vars

\* ----------------------------------------------------------------- claims
Success(code) == code \in 200..299
ClientError(code) == code \in 400..499
\* this step sends request r's response
Answered(r) == req[r].status = 0 /\ req'[r].status # 0
NoUnlinkInFlight == \A q \in Reqs : req[q].unlink # "inflight"

TableOf(ep) ==
    CASE ep \in {"POST /api/banner", "DELETE /api/banner/:id"} -> "banners"
      [] ep \in {"POST /api/jeebanner", "DELETE /api/jeebanner/:id"} -> "jeebanner"
      [] ep \in {"POST /api/v1/banner/upload", "DELETE /api/v1/banner/delete/:id"}
            -> "vidyarajan_banners"
      [] ep \in {"POST /explorecourse", "DELETE /explorecourse/:id", "GET /explorecourse"}
            -> "explorecourses"
      [] ep \in {"POST /study-material-upload", "DELETE /study-material/:id"}
            -> "study_resources"
      [] ep \in {"POST /stories", "DELETE /stories/:id"} -> "stories"
      [] ep \in {"POST /courses", "DELETE /courses/:id"} -> "courses"
      [] ep \in {"POST /api/banner/upload", "DELETE /api/banner/delete"} -> "banner"
      [] ep \in {"POST /api/students", "PUT /api/students/:id"} -> "olympiad_students"
      [] ep \in {"POST /students", "DELETE /students/:id"} -> "students"
      [] ep \in {"POST /olympiad/add-course", "PUT /olympiad/update-course/:id"}
            -> "uniquer_olympiad_courses"
      [] ep = "POST /upload-assignment" -> "assignments"
      [] ep \in {"POST /api/blog/upload-banner", "DELETE /api/blog/delete-banner/:id"}
            -> "blog_banners"
      [] ep \in {"POST /api/blogs", "DELETE /api/blogs/:id"} -> "blogs"
      [] ep \in {"POST /register", "POST /login"} -> "users"
      [] ep = "PUT /update-course/:id" -> "olympiad_course"
      [] ep = "PUT /courses/:id" -> "courses"
      [] ep \in {"POST /testimonials", "PUT /testimonials/:id"} -> "testimonials"
      [] ep \in {"POST /api/timetable/init", "PUT /api/timetable/:day"} -> "timetable"

\* the creates that demand a file
FileCreates ==
    {"POST /api/banner", "POST /api/jeebanner", "POST /api/v1/banner/upload",
     "POST /explorecourse", "POST /stories", "POST /study-material-upload",
     "POST /api/banner/upload", "POST /api/students", "POST /students",
     "POST /upload-assignment", "POST /api/blog/upload-banner"}
\* the deletes addressed by :id, and those of them whose table has a file column
IdDeletes ==
    {"DELETE /api/banner/:id", "DELETE /api/jeebanner/:id", "DELETE /courses/:id",
     "DELETE /api/v1/banner/delete/:id", "DELETE /explorecourse/:id",
     "DELETE /stories/:id", "DELETE /study-material/:id", "DELETE /students/:id",
     "DELETE /api/blog/delete-banner/:id", "DELETE /api/blogs/:id"}
FileDeletes == IdDeletes \ {"DELETE /courses/:id"}

\* C1: when a delete of an existing row of a file-bearing table is answered
\* with success, the row is gone from the table and the file the row
\* referenced is gone from the upload directory.
C1_DeleteRemovesRowAndFile ==
    [][\A r \in Reqs :
         (req[r].ep \in FileDeletes /\ Answered(r) /\ Success(req'[r].status))
         => \A row \in RowsById(TableOf(req[r].ep), req[r].id) :
              /\ row \notin db'[TableOf(req[r].ep)]
              /\ row.ref # <<>> => RowFile(TableOf(req[r].ep), row) \notin disk']_vars

\* C2: a create that demands a file, sent with its scalar fields but without
\* the file, is answered 4xx and inserts no row and adds no file.
C2_MissingFileRejected ==
    [][\A r \in Reqs :
         (/\ req[r].pc = "new"
          /\ req'[r].ep \in FileCreates
          /\ req'[r].text
          /\ req'[r].file = <<>>)
         => /\ ClientError(req'[r].status)
            /\ db' = db
            /\ disk' = disk]_vars

\* C3: a create sent with a file but without a required scalar field is
\* answered 4xx and leaves the table and the upload directory as they were
\* before the request.
C3_ValidationBeforeSideEffect ==
    [][\A r \in Reqs :
         (/\ req[r].pc = "new"
          /\ req'[r].ep \in FileCreates
          /\ ~req'[r].text
          /\ req'[r].file # <<>>)
         => /\ ClientError(req'[r].status)
            /\ db' = db
            /\ disk' = disk]_vars

\* C4: once every request sent so far has completed, and all of them with
\* success, every file in the upload directory is referenced by some row.
C4_NoOrphanedFile ==
    (/\ Idle
     /\ NoUnlinkInFlight
     /\ \A r \in Reqs : req[r].pc = "done" => Success(req[r].status))
    => \A f \in disk : \E t \in Tables : \E row \in db[t] : RowFile(t, row) = f

\* C5: in every reachable state, every row with a file reference references
\* a file that exists.
C5_NoDanglingReference ==
    \A t \in Tables : \A row \in db[t] : row.ref # <<>> => RowFile(t, row) \in disk

\* the reference a create returns in its response body
Returned(rec) == RowUrl(TableOf(rec.ep), rec.ref)

\* C6: when a create with a file is answered with success, the reference it
\* stored and returned names, through the static route, a file that exists
\* at that moment.
C6_CreatedReferenceResolves ==
    [][\A r \in Reqs :
         (/\ req[r].ep \in FileCreates
          /\ req[r].file # <<>>
          /\ Answered(r)
          /\ Success(req'[r].status))
         => /\ Served(Returned(req'[r])) \in disk'
            /\ \A row \in db'[TableOf(req[r].ep)] \ db[TableOf(req[r].ep)] :
                 RowFile(TableOf(req[r].ep), row) \in disk']_vars

\* C7: a delete whose id names no row is answered 4xx, never with success,
\* and changes neither the table nor the upload directory (a database fault,
\* answered 500, aside).
C7_DeleteMissingIsNotFound ==
    [][\A r \in Reqs :
         (/\ req[r].ep \in IdDeletes
          /\ Answered(r)
          /\ req'[r].status # 500
          /\ RowsById(TableOf(req[r].ep), req[r].id) = {})
         => /\ ClientError(req'[r].status)
            /\ db' = db
            /\ disk' = disk]_vars

\* C8: a DELETE /api/banner/delete request is answered with success whenever
\* the banner table holds a row, and when it is answered with success the row
\* it found and the file at that row's image_path are gone (a storage fault,
\* answered 500, aside).
C8_BannerDeleteRemoves ==
    [][\A r \in Reqs :
         (/\ req[r].url = ApiBannerUrl(Lit("delete"))
          /\ Answered(r)
          /\ req'[r].status # 500)
         => /\ db["banner"] # {} => Success(req'[r].status)
            /\ Success(req'[r].status)
                 => /\ \A row \in db'["banner"] : row.id # req[r].id
                    /\ req[r].path \notin disk']_vars

\* No DELETE request is ever handled by the handler registered for
\* "/api/banner/delete": "/api/banner/:id", registered before it, takes them.
BannerDeleteHandlerUnreached ==
    \A r \in Reqs : req[r].ep # "DELETE /api/banner/delete"

UploadOk(r) ==
    /\ req[r].ep = "POST /api/banner/upload"
    /\ req[r].pc = "done"
    /\ req[r].status = 200

\* request r is the latest one to have arrived
Latest(r) == r = MaxReqs \/ req[r + 1].pc = "new"

\* C9: after two successful POST /api/banner/upload requests, one after the
\* other, the banner table holds exactly one row, and its image_path is the
\* path of the file the second request uploaded.
C9_SequentialUploadsLeaveSecond ==
    \A r \in Reqs :
        (r > 1 /\ UploadOk(r - 1) /\ UploadOk(r) /\ Latest(r))
        => /\ Cardinality(db["banner"]) = 1
           /\ \A row \in db["banner"] :
                /\ row.ref = req[r].ref
                /\ Resolve(row.ref) = MulterPath(req[r].file)

C9_Witness ==
    \E r \in Reqs :
        /\ r > 1 /\ UploadOk(r - 1) /\ UploadOk(r) /\ Latest(r)
        /\ req[r - 1].file # req[r].file
        /\ MulterPath(req[r - 1].file) \in disk

\* C10: once all POST /api/banner/upload requests have completed, however
\* they overlapped, the banner table holds at most one row.
C10_ConcurrentUploadsLeaveOneRow ==
    Idle => Cardinality(db["banner"]) <= 1

\* the updates that accept a new file, and all the updates
FileUpdates ==
    {"PUT /api/students/:id", "PUT /update-course/:id", "PUT /olympiad/update-course/:id"}
Updates ==
    FileUpdates \cup {"PUT /courses/:id", "PUT /testimonials/:id", "PUT /api/timetable/:day"}

\* C11: when an update that carries a new file for an existing row is
\* answered with success, the row's file column holds the reference of the
\* new file, and the file the row referenced before is referenced by no row.
C11_UpdateReplacesReference ==
    [][\A r \in Reqs :
         (/\ req[r].ep \in FileUpdates
          /\ req[r].file # <<>>
          /\ Answered(r)
          /\ Success(req'[r].status))
         => \A old \in RowsById(TableOf(req[r].ep), req[r].id) :
              /\ \A row \in db'[TableOf(req[r].ep)] :
                   row.id = req[r].id
                   => /\ row.ref = SlashUploads(req[r].file)
                      /\ RowFile(TableOf(req[r].ep), row) = MulterPath(req[r].file)
              /\ old.ref # <<>>
                   => \A t \in Tables : \A row \in db'[t] :
                        RowFile(t, row) # RowFile(TableOf(req[r].ep), old)]_vars

\* C12: when an update that carries a new file for a row that references
\* another file is answered, then after a success the file referenced before
\* is gone from the upload directory, and after a failure it is still there.
C12_OldFileRemovedAfterUpdate ==
    [][\A r \in Reqs :
         (/\ req[r].ep \in FileUpdates
          /\ req[r].file # <<>>
          /\ Answered(r))
         => \A old \in RowsById(TableOf(req[r].ep), req[r].id) :
              (/\ old.ref # <<>>
               /\ RowFile(TableOf(req[r].ep), old) \in disk
               /\ RowFile(TableOf(req[r].ep), old) # MulterPath(req[r].file))
              => IF Success(req'[r].status)
                 THEN RowFile(TableOf(req[r].ep), old) \notin disk'
                 ELSE RowFile(TableOf(req[r].ep), old) \in disk']_vars

\* C13: an update whose id or key names no row is answered 4xx, never with
\* success (a database fault, answered 500, aside).
C13_UpdateMissingIsNotFound ==
    [][\A r \in Reqs :
         (/\ req[r].ep \in Updates
          /\ Answered(r)
          /\ req'[r].status # 500
          /\ RowsById(TableOf(req[r].ep), req[r].id) = {})
         => ClientError(req'[r].status)]_vars

\* C14: when the INSERT of a create that carries a file fails, the file
\* written for the request is gone from the upload directory at the moment
\* the error response is sent.
C14_FailedInsertRemovesFile ==
    [][\A r \in Reqs :
         (/\ req[r].ep \in FileCreates
          /\ req[r].pc = "insert"
          /\ Answered(r)
          /\ ~Success(req'[r].status))
         => MulterPath(req[r].file) \notin disk']_vars

\* the deletes that remove the row's file themselves
UnlinkingDeletes ==
    {"DELETE /students/:id", "DELETE /api/blogs/:id", "DELETE /api/banner/:id",
     "DELETE /api/v1/banner/delete/:id"}

\* C15: while such a delete is at work on a row whose referenced file is
\* absent from the upload directory, the process does not crash, and when the
\* delete is answered (database faults, answered 500 or 404, aside) the answer
\* is a success and the row is gone.
C15_DeleteWithMissingFileSucceeds ==
    [][\A r \in Reqs :
         (/\ req[r].ep \in UnlinkingDeletes
          /\ req[r].pc \in {"select", "delete"}
          /\ \E row \in RowsById(TableOf(req[r].ep), req[r].id) :
                row.ref # <<>> /\ RowFile(TableOf(req[r].ep), row) \notin disk)
         => /\ ~crashed'
            /\ (Answered(r) /\ req'[r].status \notin {404, 500})
                 => /\ Success(req'[r].status)
                    /\ RowsById(TableOf(req[r].ep), req[r].id)
                         \cap db'[TableOf(req[r].ep)] = {}]_vars

\* C16: no request has been answered while an fs.unlink it started is still
\* in flight.
C16_NoResponseBeforeCompletion ==
    \A r \in Reqs : req[r].status # 0 => req[r].unlink # "inflight"

\* a reference that carries the scheme and host of an absolute URL
HasHost(ref) == \E i \in 1..Len(ref) : ref[i] = Origin

\* C19: no row stores a file reference that is an absolute URL or contains a
\* host name.
C19_StoredReferenceIsRelative ==
    \A t \in Tables : \A row \in db[t] : ~HasHost(row.ref)

\* a query parameter that is a positive integer
IsPositive(tok) == tok[1] = "num" /\ tok[2] > 0

\* C17: a GET /explorecourse with positive integers p and l as page and limit
\* and no search term, when answered (a database fault, answered 500, aside),
\* is answered with success and with exactly the rows at positions
\* (p-1)*l+1 .. min(p*l, N) of the N rows in the table's order: none when
\* (p-1)*l >= N.
C17_PageIsTheRequestedSlice ==
    [][\A r \in Reqs :
         (/\ req[r].ep = "GET /explorecourse"
          /\ IsPositive(req[r].query.page)
          /\ IsPositive(req[r].query.limit)
          /\ ~req[r].query.search
          /\ Answered(r)
          /\ req'[r].status # 500)
         => LET p == req[r].query.page[2]
                l == req[r].query.limit[2]
                all == TableOrder(db["explorecourses"])
                N == Len(all)
                upto == IF p * l < N THEN p * l ELSE N
                count == IF upto > (p - 1) * l THEN upto - (p - 1) * l ELSE 0
            IN /\ Success(req'[r].status)
               /\ Len(req'[r].rows) = count
               /\ \A k \in 1..count : req'[r].rows[k] = all[(p - 1) * l + k]
               /\ (p - 1) * l >= N => req'[r].rows = <<>>]_vars

\* a second page that is the second row of a two-row table has been served
C17_Witness ==
    \E r \in Reqs :
        /\ req[r].ep = "GET /explorecourse"
        /\ req[r].status = 200
        /\ req[r].page = 2
        /\ req[r].limit = 1
        /\ Cardinality(db["explorecourses"]) = 2
        /\ Len(req[r].rows) = 1
        /\ req[r].rows[1] = TableOrder(db["explorecourses"])[2]

\* C18: whatever page and limit a GET /explorecourse carries, the LIMIT it
\* passes to the query is positive and the OFFSET is not negative, and a page
\* or limit that is absent, not a number, zero or negative counts as 1 or 10.
C18_InvalidPagingFallsBack ==
    \A r \in Reqs :
        At(r, "GET /explorecourse", "select")
        => /\ req[r].limit > 0
           /\ req[r].offset >= 0
           /\ ~IsPositive(req[r].query.page) => req[r].page = DefaultPage
           /\ ~IsPositive(req[r].query.limit) => req[r].limit = DefaultLimit

\* C20: a step of a POST /login request never changes the users table; when
\* the request is answered with success, a users row has the email sent and a
\* hash of the password sent; and when it carried both fields and is answered
\* otherwise (a database fault, answered 500, aside), the answer is the one
\* authentication error, whether the email is unknown or the password wrong.
C20_LoginChecksThePassword ==
    [][\A r \in Reqs :
         (req[r].ep = "POST /login" /\ req'[r] # req[r])
         => /\ db' = db
            /\ (Answered(r) /\ Success(req'[r].status))
                 => \E row \in db["users"] : \E salt \in Salts :
                       /\ row.email = req[r].email
                       /\ row.password = Hash(req[r].password, salt)
            /\ (Answered(r) /\ ~Success(req'[r].status) /\ req'[r].status # 500)
                 => /\ req'[r].status = 400
                    /\ req'[r].error = "Invalid email or password"
                    /\ \/ UsersByEmail(req[r].email) = {}
                       \/ \E row \in UsersByEmail(req[r].email) : \A salt \in Salts :
                             row.password # Hash(req[r].password, salt)]_vars

\* one login has succeeded, and one with a wrong password for the same email
\* has been refused
C20_Witness ==
    \E ok, bad \in Reqs :
        /\ req[ok].ep = "POST /login" /\ req[ok].status = 200
        /\ req[bad].ep = "POST /login" /\ req[bad].status = 400
        /\ req[bad].error = "Invalid email or password"
        /\ req[bad].email = req[ok].email
        /\ req[bad].password # req[ok].password

\* C21: a response sent because a database statement failed has a status in
\* the 5xx range.
C21_DatabaseFailureIsServerError ==
    [][\A r \in Reqs :
         (Answered(r) /\ req'[r].dberr # "")
         => req'[r].status \in 500..599]_vars

\* C22: the users table never holds two rows with one email, and a POST
\* /register for an email that is registered by the time it is answered is
\* answered with a 4xx error and inserts nothing (a failure of its SELECT,
\* answered 500, aside).
C22_RegisterKeepsEmailsUnique ==
    [][/\ \A a, b \in db'["users"] : a.email = b.email => a = b
       /\ \A r \in Reqs :
            (/\ req[r].ep = "POST /register"
             /\ Answered(r)
             /\ UsersByEmail(req[r].email) # {}
             /\ ~(req[r].pc = "select" /\ req'[r].dberr # ""))
            => /\ ClientError(req'[r].status)
               /\ db' = db]_vars

\* the table a request of the one-row handlers writes
SingleTable(ep) == IF ep = "POST /api/title" THEN "titles" ELSE "admin_details"

\* C23: when POST /api/title or POST /api/update is answered with success,
\* its table holds exactly one row and that row carries the posted values.
C23_SuccessfulUpdateStoresThePayload ==
    [][\A r \in Reqs :
         (/\ req[r].ep \in {"POST /api/title", "POST /api/update"}
          /\ Answered(r)
          /\ Success(req'[r].status))
         => /\ Cardinality(db'[SingleTable(req[r].ep)]) = 1
            /\ \A row \in db'[SingleTable(req[r].ep)] : row.values = req[r].body]_vars

\* C24: once every request has been answered, all of them were GET /api/title
\* and no statement failed for a reason other than the requests themselves,
\* every request was answered with success and a title, and the titles table
\* holds exactly one row, with id 1.
C24_ConcurrentTitleReadsSucceed ==
    (\A r \in Reqs : /\ req[r].ep = "GET /api/title"
                     /\ req[r].pc = "done"
                     /\ req[r].dberr # "failed")
    => /\ \A r \in Reqs : Success(req[r].status) /\ req[r].body # ""
       /\ Cardinality(db["titles"]) = 1
       /\ \A row \in db["titles"] : row.id = 1

\* C25: an accepted request receives exactly one response: a response that was
\* sent is not followed by another one, and the process never stops with an
\* accepted request left unanswered.
C25_ExactlyOneResponse ==
    [][/\ \A r \in Reqs : req[r].status # 0 => req'[r].status = req[r].status
       /\ crashed' => \A r \in Reqs : req'[r].pc # "new" => req'[r].status # 0]_vars

\* C26: any two uploads are stored under distinct generated names.
C26_UploadNamesAreDistinct ==
    \A a, b \in Reqs :
        (a # b /\ req[a].file # <<>>) => req[a].file # req[b].file

====
